---------------------------- MODULE Spec2Model ----------------------------
(***************************************************************************)
(* A model of binance-order-book.py: one run of main(), from argument      *)
(* parsing through the single depth request, the per-side bucket           *)
(* aggregation, the four sorted views and the two printed sections.        *)
(*                                                                         *)
(* Strings are sequences of one-character strings, so that rstrip, split   *)
(* and float() are computed character by character.  Python floats are     *)
(* binary floating-point numbers with round-to-nearest-even; the model     *)
(* keeps that arithmetic and narrows the significand from 53 bits to       *)
(* MantBits bits (the exponent is left unbounded: no input of the model    *)
(* comes near the overflow or underflow range of a double).                *)
(***************************************************************************)
EXTENDS Integers, Sequences, FiniteSets

VARIABLES
    pc,                  \* position of main(): see the actions below
    args_group_size,     \* args.group_size, the --group-size string
    args_sort_dir,       \* args.sort_dir, "asc" or "desc"
    group_size_float,    \* first component of parse_group_size's result
    group_size_decimals, \* second component of parse_group_size's result
    get_count,           \* number of requests.get calls issued so far
    data,                \* the decoded JSON body: [bids |-> ..., asks |-> ...]
    bids_agg,            \* defaultdict(float) of the bids, in insertion order
    asks_agg,            \* defaultdict(float) of the asks, in insertion order
    bids_by_price, bids_by_qty, asks_by_price, asks_by_qty,
    stdout,              \* what the run has printed on standard output
    error,               \* the exception that ended the run, or "none"
    exit_code            \* the process's exit code, -1 while it runs

vars == <<pc, args_group_size, args_sort_dir, group_size_float,
          group_size_decimals, get_count, data, bids_agg, asks_agg,
          bids_by_price, bids_by_qty, asks_by_price, asks_by_qty,
          stdout, error, exit_code>>

---------------------------------------------------------------------------
(* Bounds of the model. *)

\* Significand width of the model's floats (a double has 53).
MantBits == 8

\* Levels (bids and asks together) in one response of the depth endpoint.
MaxLevels == 3

\* Levels of the one side whose aggregation and sorting is explored in depth.
MaxSideLevels == 3

\* Length of the --group-size strings enumerated for parse_group_size.
MaxStrLen == 4

---------------------------------------------------------------------------
(* Integers and strings. *)

RECURSIVE Pow(_, _)
Pow(b, n) == IF n = 0 THEN 1 ELSE b * Pow(b, n - 1)

Abs(x) == IF x < 0 THEN -x ELSE x

Min(a, b) == IF a <= b THEN a ELSE b

Digits == {"0", "1", "2", "3", "4", "5", "6", "7", "8", "9"}

DigitVal(c) ==
    CASE c = "0" -> 0 [] c = "1" -> 1 [] c = "2" -> 2 [] c = "3" -> 3
      [] c = "4" -> 4 [] c = "5" -> 5 [] c = "6" -> 6 [] c = "7" -> 7
      [] c = "8" -> 8 [] c = "9" -> 9

\* str.rstrip(c): every trailing occurrence of the character c is removed.
RECURSIVE rstrip(_, _)
rstrip(s, c) ==
    IF Len(s) > 0 /\ s[Len(s)] = c THEN rstrip(SubSeq(s, 1, Len(s) - 1), c)
    ELSE s

\* Index of the first occurrence of c in s at or after position i, 0 if none.
RECURSIVE Find(_, _, _)
Find(s, c, i) ==
    IF i > Len(s) THEN 0
    ELSE IF s[i] = c THEN i
    ELSE Find(s, c, i + 1)

\* c in s
Contains(s, c) == Find(s, c, 1) # 0

\* s.split(c)[1]: the piece between the first c and the next c (or the end).
SplitSecond(s, c) ==
    LET i == Find(s, c, 1)
        j == Find(s, c, i + 1)
    IN  SubSeq(s, i + 1, IF j = 0 THEN Len(s) ELSE j - 1)

---------------------------------------------------------------------------
(* Floats: [m |-> significand, e |-> exponent] stands for m * 2^e.  A      *)
(* nonzero float is normalised, 2^(MantBits-1) <= |m| < 2^MantBits, so     *)
(* that two floats are equal as records iff they are equal as numbers.     *)

FZero == [m |-> 0, e |-> 0]

\* Significands of nonzero floats lie in MinMant .. MaxMant - 1.
MaxMant == Pow(2, MantBits)

MinMant == Pow(2, MantBits - 1)

\* The exponent that brings num/den into [MinMant, MaxMant).
RECURSIVE Norm(_, _, _)
Norm(num, den, e) ==
    IF num >= den * MaxMant THEN Norm(num, den * 2, e + 1)
    ELSE IF num < den * MinMant THEN Norm(num * 2, den, e - 1)
    ELSE [num |-> num, den |-> den, e |-> e]

\* The float nearest to num/den (den > 0), ties to the even significand.
RoundQ(num, den) ==
    IF num = 0 THEN FZero
    ELSE LET sg == IF num < 0 THEN -1 ELSE 1
             n  == Norm(Abs(num), den, 0)
             q  == n.num \div n.den
             r  == n.num % n.den
             up == 2 * r > n.den \/ (2 * r = n.den /\ q % 2 = 1)
             m  == IF up THEN q + 1 ELSE q
         IN  IF m = MaxMant
             THEN [m |-> sg * MinMant, e |-> n.e + 1]
             ELSE [m |-> sg * m, e |-> n.e]

\* a < b on floats.
FLess(a, b) ==
    LET mn == Min(a.e, b.e)
    IN  a.m * Pow(2, a.e - mn) < b.m * Pow(2, b.e - mn)

\* a + b
FAdd(a, b) ==
    LET mn  == Min(a.e, b.e)
        sum == a.m * Pow(2, a.e - mn) + b.m * Pow(2, b.e - mn)
    IN  IF mn >= 0 THEN RoundQ(sum * Pow(2, mn), 1)
        ELSE RoundQ(sum, Pow(2, -mn))

\* a / b, b nonzero
FDiv(a, b) ==
    LET sg == IF b.m < 0 THEN -1 ELSE 1
        d  == a.e - b.e
    IN  IF d >= 0 THEN RoundQ(sg * a.m * Pow(2, d), Abs(b.m))
        ELSE RoundQ(sg * a.m, Abs(b.m) * Pow(2, -d))

\* math.floor(a): the largest integer not above a, as an int.
FFloor(a) ==
    IF a.e >= 0 THEN a.m * Pow(2, a.e)
    ELSE LET d == Pow(2, -a.e)
         IN  IF a.m >= 0 THEN a.m \div d
             ELSE -((-a.m + d - 1) \div d)

\* n * b for an int n and a float b: n is converted to a float, then the
\* product is rounded.
IntMulF(n, b) ==
    LET f == RoundQ(n, 1)
        p == f.m * b.m
        d == f.e + b.e
    IN  IF d >= 0 THEN RoundQ(p * Pow(2, d), 1) ELSE RoundQ(p, Pow(2, -d))

---------------------------------------------------------------------------
(* float(str) *)

\* Whether every character of s is a decimal digit.
AllDigits(s) == \A i \in 1..Len(s) : s[i] \in Digits

\* The integer a string of digits denotes ("" denotes 0).
RECURSIVE DigitsVal(_)
DigitsVal(s) ==
    IF Len(s) = 0 THEN 0
    ELSE 10 * DigitsVal(SubSeq(s, 1, Len(s) - 1)) + DigitVal(s[Len(s)])

\* s without its sign character, if it has one.
Unsigned(s) ==
    IF Len(s) > 0 /\ s[1] \in {"-", "+"} THEN SubSeq(s, 2, Len(s)) ELSE s

\* Whether float(s) succeeds: an optional sign, then digits with at most one
\* point, at least one digit in all.  (The other forms float() accepts --
\* exponents, underscores, surrounding blanks, inf, nan -- need characters the
\* model's inputs do not contain.)
IsDecimal(s) ==
    LET u == Unsigned(s)
        i == Find(u, ".", 1)
        ip == IF i = 0 THEN u ELSE SubSeq(u, 1, i - 1)
        fp == IF i = 0 THEN <<>> ELSE SubSeq(u, i + 1, Len(u))
    IN  AllDigits(ip) /\ AllDigits(fp) /\ Len(ip) + Len(fp) > 0

\* float(s) for a string with IsDecimal(s): the nearest float to its value.
FloatOf(s) ==
    LET u == Unsigned(s)
        sg == IF Len(s) > 0 /\ s[1] = "-" THEN -1 ELSE 1
        i == Find(u, ".", 1)
        ip == IF i = 0 THEN u ELSE SubSeq(u, 1, i - 1)
        fp == IF i = 0 THEN <<>> ELSE SubSeq(u, i + 1, Len(u))
    IN  RoundQ(sg * DigitsVal(ip \o fp), Pow(10, Len(fp)))

---------------------------------------------------------------------------
(* parse_group_size *)

\* decimals_count without the stripping of trailing zeros.
decimals_count_unstripped(gs_str) ==
    LET s == rstrip(gs_str, ".")
    IN  IF Contains(s, ".") THEN Len(SplitSecond(s, ".")) ELSE 0

\* The number of decimals parse_group_size derives from the string.
decimals_count(gs_str) ==
    LET s == rstrip(rstrip(gs_str, "0"), ".")
    IN  IF Contains(s, ".") THEN Len(SplitSecond(s, ".")) ELSE 0

\* parse_group_size(gs_str): the pair it returns, or the ValueError float()
\* raises before anything else is computed.
parse_group_size(gs_str) ==
    IF ~IsDecimal(gs_str)
    THEN [raised |-> "ValueError", val |-> FZero, decimals |-> 0]
    ELSE [raised |-> "none", val |-> FloatOf(gs_str),
          decimals |-> decimals_count(gs_str)]

---------------------------------------------------------------------------
(* group_price *)

\* group_price, were the quotient rounded up instead of down.
group_price_ceil(price_str, gsf) ==
    IF ~IsDecimal(price_str) THEN [raised |-> "ValueError", val |-> FZero]
    ELSE IF gsf.m = 0 THEN [raised |-> "ZeroDivisionError", val |-> FZero]
    ELSE LET q == FDiv(FloatOf(price_str), gsf)
         IN  [raised |-> "none",
              val |-> IntMulF(-FFloor([m |-> -q.m, e |-> q.e]), gsf)]

\* group_price(price_str, group_size_float): the bucket key, or the exception
\* raised by float(price_str) or by the division.
group_price(price_str, gsf) ==
    IF ~IsDecimal(price_str) THEN [raised |-> "ValueError", val |-> FZero]
    ELSE IF gsf.m = 0 THEN [raised |-> "ZeroDivisionError", val |-> FZero]
    ELSE [raised |-> "none",
          val |-> IntMulF(FFloor(FDiv(FloatOf(price_str), gsf)), gsf)]

---------------------------------------------------------------------------
(* The aggregation loops of main().  A defaultdict(float) is the sequence  *)
(* of its (key, value) items in insertion order, which is the order        *)
(* dict.items() yields them in.                                            *)

\* A lookup that only finds the key inserted last.
KeyIndexLastOnly(agg, k, i) ==
    IF Len(agg) > 0 /\ agg[Len(agg)][1] = k THEN Len(agg) ELSE 0

\* Position of key k in the dict, 0 if absent.
RECURSIVE KeyIndex(_, _, _)
KeyIndex(agg, k, i) ==
    IF i > Len(agg) THEN 0
    ELSE IF agg[i][1] = k THEN i
    ELSE KeyIndex(agg, k, i + 1)

\* agg[bucket] = q: the quantity replaces the sum instead of adding to it.
DictAssign(agg, bucket, q) ==
    LET i == KeyIndex(agg, bucket, 1)
    IN  IF i = 0 THEN Append(agg, <<bucket, q>>)
        ELSE [agg EXCEPT ![i] = <<bucket, q>>]

\* agg[bucket] += q: a missing key is inserted last with 0.0 + q, a present
\* key keeps its place.
DictAdd(agg, bucket, q) ==
    LET i == KeyIndex(agg, bucket, 1)
    IN  IF i = 0 THEN Append(agg, <<bucket, FAdd(FZero, q)>>)
        ELSE [agg EXCEPT ![i] = <<bucket, FAdd(agg[i][2], q)>>]

\* The loop, were an entry with fewer than two fields skipped.
RECURSIVE AggLoopSkipShort(_, _, _, _)
AggLoopSkipShort(entries, i, agg, gsf) ==
    IF i > Len(entries) THEN [raised |-> "none", agg |-> agg]
    ELSE LET entry == entries[i]
         IN  IF Len(entry) < 2 THEN AggLoopSkipShort(entries, i + 1, agg, gsf)
             ELSE LET bucket == group_price(entry[1], gsf)
                  IN  IF bucket.raised # "none"
                      THEN [raised |-> bucket.raised, agg |-> agg]
                      ELSE AggLoopSkipShort(entries, i + 1,
                               DictAdd(agg, bucket.val, FloatOf(entry[2])),
                               gsf)

\* for price_str, qty_str, *_ in entries: ... from entry i on.  The loop
\* stops at the first exception: an entry with fewer than two fields does
\* not unpack (ValueError), then group_price, then float(qty_str).
RECURSIVE AggLoop(_, _, _, _)
AggLoop(entries, i, agg, gsf) ==
    IF i > Len(entries) THEN [raised |-> "none", agg |-> agg]
    ELSE LET entry == entries[i]
         IN  IF Len(entry) < 2 THEN [raised |-> "ValueError", agg |-> agg]
             ELSE LET bucket == group_price(entry[1], gsf)
                  IN  IF bucket.raised # "none"
                      THEN [raised |-> bucket.raised, agg |-> agg]
                      ELSE IF ~IsDecimal(entry[2])
                      THEN [raised |-> "ValueError", agg |-> agg]
                      ELSE AggLoop(entries, i + 1,
                                   DictAdd(agg, bucket.val, FloatOf(entry[2])),
                                   gsf)

\* One side's loop, starting from an empty defaultdict.
Aggregate(entries, gsf) == AggLoop(entries, 1, <<>>, gsf)

---------------------------------------------------------------------------
(* sorted(items, key=lambda x: x[idx], reverse=rev): a stable sort, also   *)
(* with reverse=True (items with equal keys keep their original order).    *)

\* The comparison, were the reverse flag ignored.
BeforeIgnoringReverse(x, y, idx, rev) == FLess(x[idx], y[idx])

\* Whether x sorts strictly before y.
Before(x, y, idx, rev) ==
    IF rev THEN FLess(y[idx], x[idx]) ELSE FLess(x[idx], y[idx])

\* First position of out whose item x sorts strictly before.
RECURSIVE InsertPos(_, _, _, _, _)
InsertPos(out, x, idx, rev, i) ==
    IF i > Len(out) THEN i
    ELSE IF Before(x, out[i], idx, rev) THEN i
    ELSE InsertPos(out, x, idx, rev, i + 1)

RECURSIVE SortFrom(_, _, _, _, _)
SortFrom(items, i, out, idx, rev) ==
    IF i > Len(items) THEN out
    ELSE LET p == InsertPos(out, items[i], idx, rev, 1)
         IN  SortFrom(items, i + 1,
                      SubSeq(out, 1, p - 1) \o <<items[i]>>
                          \o SubSeq(out, p, Len(out)),
                      idx, rev)

sorted(items, idx, rev) == SortFrom(items, 1, <<>>, idx, rev)

\* The bids price direction, were it to follow --sort-dir.
BidsPriceReverseBySortDir == args_sort_dir = "desc"

\* The reverse flags main() passes to sorted().
BidsPriceReverse == TRUE

AsksPriceReverse == FALSE

QtyReverse == args_sort_dir = "desc"

---------------------------------------------------------------------------
(* Inputs of a run. *)

\* The --group-size strings of the full runs.
GroupSizeArgs ==
    { <<"1">>, <<"0", ".", "1">>, <<"0">>, <<"-", "1">>, <<"x">> }

\* Characters of the strings enumerated for parse_group_size alone.
Alphabet == {"0", "1", "5", ".", "-", "x"}

\* The docstring's examples of parse_group_size.
DocExamples ==
    { <<"1">>, <<"1", ".", "0">>, <<"0", ".", "1">>, <<"2", ".", "5", "0">>,
      <<"0", ".", "2", "5">>, <<"0", ".", "0", "0", "1", "0">> }

AllStrings == UNION { [1..n -> Alphabet] : n \in 0..MaxStrLen } \cup DocExamples

\* A level with a further field after price and quantity.
LongEntry == << <<"1", ".", "1">>, <<"1">>, <<"7">> >>

\* Level entries of the full runs: well-formed ones, one with a third field,
\* one without its quantity and one without any field.
Entries ==
    { << <<"0", ".", "9">>, <<"0", ".", "2">> >>,
      << <<"1", ".", "8">>, <<"1">> >>,
      LongEntry,
      << <<"1", ".", "1">> >>,
      <<>> }

\* The JSON bodies the depth endpoint may answer with: nb bids and na asks.
Bodies(nb, na) ==
    { [bids |-> b, asks |-> a] : b \in [1..nb -> Entries], a \in [1..na -> Entries] }

\* How the request may fail inside the try block.
FetchFailures == {"ConnectionError", "HTTPError", "JSONDecodeError"}

---------------------------------------------------------------------------
(* main() *)

NoBody == [bids |-> <<>>, asks |-> <<>>]

Init ==
    /\ pc = "start"
    /\ args_group_size \in GroupSizeArgs
    /\ args_sort_dir \in {"asc", "desc"}
    /\ group_size_float = FZero
    /\ group_size_decimals = 0
    /\ get_count = 0
    /\ data = NoBody
    /\ bids_agg = <<>>
    /\ asks_agg = <<>>
    /\ bids_by_price = <<>>
    /\ bids_by_qty = <<>>
    /\ asks_by_price = <<>>
    /\ asks_by_qty = <<>>
    /\ stdout = <<>>
    /\ error = "none"
    /\ exit_code = -1

\* An exception nothing catches: the interpreter prints the traceback on
\* standard error and exits with code 1.
Crash(exc) ==
    /\ pc' = "exited"
    /\ error' = exc
    /\ exit_code' = 1

\* args = parser.parse_args(); parse_group_size(args.group_size)
ParseArgs ==
    /\ pc = "start"
    /\ LET r == parse_group_size(args_group_size)
       IN  IF r.raised # "none"
           THEN /\ Crash(r.raised)
                /\ UNCHANGED <<group_size_float, group_size_decimals>>
           ELSE /\ group_size_float' = r.val
                /\ group_size_decimals' = r.decimals
                /\ pc' = "request"
                /\ UNCHANGED <<error, exit_code>>
    /\ UNCHANGED <<args_group_size, args_sort_dir, get_count, data, bids_agg,
                   asks_agg, bids_by_price, bids_by_qty, asks_by_price,
                   asks_by_qty, stdout>>

\* The try block succeeds: data is the decoded body.
FetchOk ==
    /\ pc = "request"
    /\ \E nb \in 0..MaxLevels : \E na \in 0..(MaxLevels - nb) :
          \E d \in Bodies(nb, na) : data' = d
    /\ get_count' = get_count + 1
    /\ pc' = "aggregate_bids"
    /\ UNCHANGED <<args_group_size, args_sort_dir, group_size_float,
                   group_size_decimals, bids_agg, asks_agg, bids_by_price,
                   bids_by_qty, asks_by_price, asks_by_qty, stdout, error,
                   exit_code>>

\* The except clause without its sys.exit(1): the run goes on.
FetchFailsWithoutExit ==
    /\ pc = "request"
    /\ \E f \in FetchFailures :
          stdout' = Append(stdout, [kind |-> "error", title |-> f,
                                    left |-> <<>>, right |-> <<>>])
    /\ get_count' = get_count + 1
    /\ pc' = "aggregate_bids"
    /\ UNCHANGED <<args_group_size, args_sort_dir, group_size_float,
                   group_size_decimals, data, bids_agg, asks_agg,
                   bids_by_price, bids_by_qty, asks_by_price, asks_by_qty,
                   error, exit_code>>

\* The try block raises: the except clause prints the error and exits 1.
FetchFails ==
    /\ pc = "request"
    /\ \E f \in FetchFailures :
          stdout' = Append(stdout, [kind |-> "error", title |-> f,
                                    left |-> <<>>, right |-> <<>>])
    /\ get_count' = get_count + 1
    /\ exit_code' = 1
    /\ pc' = "exited"
    /\ UNCHANGED <<args_group_size, args_sort_dir, group_size_float,
                   group_size_decimals, data, bids_agg, asks_agg,
                   bids_by_price, bids_by_qty, asks_by_price, asks_by_qty,
                   error>>

\* The loop over data.get("bids", []).
AggregateBids ==
    /\ pc = "aggregate_bids"
    /\ LET r == Aggregate(data.bids, group_size_float)
       IN  /\ bids_agg' = r.agg
           /\ IF r.raised # "none" THEN Crash(r.raised)
              ELSE pc' = "aggregate_asks" /\ UNCHANGED <<error, exit_code>>
    /\ UNCHANGED <<args_group_size, args_sort_dir, group_size_float,
                   group_size_decimals, get_count, data, asks_agg,
                   bids_by_price, bids_by_qty, asks_by_price, asks_by_qty,
                   stdout>>

\* The loop over data.get("asks", []).
AggregateAsks ==
    /\ pc = "aggregate_asks"
    /\ LET r == Aggregate(data.asks, group_size_float)
       IN  /\ asks_agg' = r.agg
           /\ IF r.raised # "none" THEN Crash(r.raised)
              ELSE pc' = "sort" /\ UNCHANGED <<error, exit_code>>
    /\ UNCHANGED <<args_group_size, args_sort_dir, group_size_float,
                   group_size_decimals, get_count, data, bids_agg,
                   bids_by_price, bids_by_qty, asks_by_price, asks_by_qty,
                   stdout>>

\* The four calls of sorted().
SortViews ==
    /\ pc = "sort"
    /\ bids_by_price' = sorted(bids_agg, 1, BidsPriceReverse)
    /\ bids_by_qty' = sorted(bids_agg, 2, QtyReverse)
    /\ asks_by_price' = sorted(asks_agg, 1, AsksPriceReverse)
    /\ asks_by_qty' = sorted(asks_agg, 2, QtyReverse)
    /\ pc' = "print_bids"
    /\ UNCHANGED <<args_group_size, args_sort_dir, group_size_float,
                   group_size_decimals, get_count, data, bids_agg, asks_agg,
                   stdout, error, exit_code>>

\* print_side_by_side(title, sorted_by_price, sorted_by_qty, decimals): the
\* section it prints, its rows being the two views side by side.
print_side_by_side(title, sorted_by_price, sorted_by_qty) ==
    Append(stdout, [kind |-> "table", title |-> title,
                    left |-> sorted_by_price, right |-> sorted_by_qty])

PrintBids ==
    /\ pc = "print_bids"
    /\ stdout' = print_side_by_side("Bids", bids_by_price, bids_by_qty)
    /\ pc' = "print_asks"
    /\ UNCHANGED <<args_group_size, args_sort_dir, group_size_float,
                   group_size_decimals, get_count, data, bids_agg, asks_agg,
                   bids_by_price, bids_by_qty, asks_by_price, asks_by_qty,
                   error, exit_code>>

\* The last statement of main(); the interpreter then exits with code 0.
PrintAsks ==
    /\ pc = "print_asks"
    /\ stdout' = print_side_by_side("Asks", asks_by_price, asks_by_qty)
    /\ pc' = "exited"
    /\ exit_code' = 0
    /\ UNCHANGED <<args_group_size, args_sort_dir, group_size_float,
                   group_size_decimals, get_count, data, bids_agg, asks_agg,
                   bids_by_price, bids_by_qty, asks_by_price, asks_by_qty,
                   error>>

Next ==
    \/ ParseArgs
    \/ FetchOk
    \/ FetchFails
    \/ AggregateBids
    \/ AggregateAsks
    \/ SortViews
    \/ PrintBids
    \/ PrintAsks

Spec == Init /\ [][Next]_vars

\* parse_group_size alone, over every string of the alphabet.
InitParse ==
    /\ pc = "start"
    /\ args_group_size \in AllStrings
    /\ args_sort_dir \in {"asc", "desc"}
    /\ group_size_float = FZero
    /\ group_size_decimals = 0
    /\ get_count = 0
    /\ data = NoBody
    /\ bids_agg = <<>>
    /\ asks_agg = <<>>
    /\ bids_by_price = <<>>
    /\ bids_by_qty = <<>>
    /\ asks_by_price = <<>>
    /\ asks_by_qty = <<>>
    /\ stdout = <<>>
    /\ error = "none"
    /\ exit_code = -1

NextParse == ParseArgs

SpecParse == InitParse /\ [][NextParse]_vars

---------------------------------------------------------------------------
(* The aggregation and the sorting alone: the run is taken up where the    *)
(* request has succeeded, over more levels per side than the full runs.    *)

\* The --group-size strings of these runs.
AggGroupSizes == { <<"1">>, <<"0", ".", "1">>, <<"0", ".", "5">> }

\* Well-formed level entries: three prices, two quantities, one entry with a
\* third field.
SideEntries ==
    { << <<"0", ".", "9">>, <<"1">> >>,
      << <<"1", ".", "1">>, <<"0", ".", "2">> >>,
      LongEntry,
      << <<"1", ".", "8">>, <<"0", ".", "2">> >>,
      << <<"1", ".", "8">>, <<"1">> >> }

\* Every price from 0.0 to 3.9 in steps of 0.1.
WidePrices == { <<a, ".", b>> : a \in {"0", "1", "2", "3"}, b \in Digits }

\* The bids of these runs: up to MaxSideLevels levels, or one level of any
\* of the wide prices.
AggBids ==
    UNION { [1..n -> SideEntries] : n \in 0..MaxSideLevels }
        \cup { << <<p, <<"1">>>> >> : p \in WidePrices }

\* The asks of these runs.
AggAsks ==
    << << <<"1", ".", "1">>, <<"1">> >>,
       << <<"1", ".", "8">>, <<"0", ".", "2">> >> >>

InitAgg ==
    /\ pc = "aggregate_bids"
    /\ args_group_size \in AggGroupSizes
    /\ args_sort_dir \in {"asc", "desc"}
    /\ group_size_float = parse_group_size(args_group_size).val
    /\ group_size_decimals = parse_group_size(args_group_size).decimals
    /\ get_count = 1
    /\ \E b \in AggBids : data = [bids |-> b, asks |-> AggAsks]
    /\ bids_agg = <<>>
    /\ asks_agg = <<>>
    /\ bids_by_price = <<>>
    /\ bids_by_qty = <<>>
    /\ asks_by_price = <<>>
    /\ asks_by_qty = <<>>
    /\ stdout = <<>>
    /\ error = "none"
    /\ exit_code = -1

NextAgg ==
    \/ AggregateBids
    \/ AggregateAsks
    \/ SortViews

SpecAgg == InitAgg /\ [][NextAgg]_vars

---------------------------------------------------------------------------
(* Properties of parse_group_size (checked under SpecParse).               *)

\* The string a run has parsed successfully.
Parsed == pc = "request"

\* Position of the last character of s that is not "0" (0 if there is none).
LastNonZero(s) ==
    CHOOSE j \in 0..Len(s) :
        /\ \A i \in (j + 1)..Len(s) : s[i] = "0"
        /\ j = 0 \/ s[j] # "0"

\* s once its trailing "0" characters and then one trailing "." are stripped.
Stripped(s) ==
    LET j == LastNonZero(s)
    IN  IF j > 0 /\ s[j] = "." THEN SubSeq(s, 1, j - 1) ELSE SubSeq(s, 1, j)

\* The number of characters of t after its ".", 0 if it has none.
CharsAfterPoint(t) ==
    LET dots == { i \in 1..Len(t) : t[i] = "." }
    IN  IF dots = {} THEN 0
        ELSE Len(t) - (CHOOSE i \in dots : \A k \in dots : i <= k)

\* The decimal value of a valid string, as the fraction num / den.
DecimalNum(s) ==
    LET u == Unsigned(s)
        digits == SelectSeq(u, LAMBDA c : c # ".")
    IN  (IF s[1] = "-" THEN -1 ELSE 1) * DigitsVal(digits)

DecimalDen(s) == Pow(10, CharsAfterPoint(s))

\* Whether the float f is a nearest float to num / den: it is off by at most
\* half a unit of its last place.
NearestTo(f, num, den) ==
    IF num = 0 THEN f = FZero
    ELSE /\ MinMant <= Abs(f.m) /\ Abs(f.m) < MaxMant
         /\ IF f.e >= 0
            THEN 2 * Abs(f.m * Pow(2, f.e) * den - num) <= Pow(2, f.e) * den
            ELSE 2 * Abs(f.m * den - num * Pow(2, -f.e)) <= den

\* C4: for every valid decimal string, parse_group_size returns the float
\* value of the string, and as precision the number of characters after the
\* point once the trailing zeros and then a trailing point are stripped (0
\* when no point remains): "0.0010" gives 3, "1.0" gives 0, "2.50" gives 1.
C4_ParsePrecision ==
    Parsed =>
        /\ NearestTo(group_size_float, DecimalNum(args_group_size),
                     DecimalDen(args_group_size))
        /\ group_size_decimals = CharsAfterPoint(Stripped(args_group_size))
        /\ args_group_size = <<"0", ".", "0", "0", "1", "0">>
               => group_size_decimals = 3
        /\ args_group_size = <<"1", ".", "0">> => group_size_decimals = 0
        /\ args_group_size = <<"2", ".", "5", "0">> => group_size_decimals = 1

\* A valid string is parsed whose trailing zero does not count.
C4_Witness ==
    /\ Parsed
    /\ args_group_size = <<"0", ".", "0", "0", "1", "0">>
    /\ group_size_decimals = 3
    /\ group_size_float = RoundQ(1, 1000)

---------------------------------------------------------------------------
(* Properties of the full run (checked under Spec).                        *)

\* Whether a valid decimal string denotes zero or a negative value.
NonPositive(s) ==
    IsDecimal(s) /\ (s[1] = "-" \/ DecimalNum(s) = 0)

\* Whether a printed item is a Bids or Asks section.
IsTable(item) == item.kind = "table"

NoTablePrinted == \A i \in 1..Len(stdout) : ~IsTable(stdout[i])

NothingAggregated ==
    /\ bids_agg = <<>> /\ asks_agg = <<>>
    /\ bids_by_price = <<>> /\ bids_by_qty = <<>>
    /\ asks_by_price = <<>> /\ asks_by_qty = <<>>

\* C5: a group-size string that is no decimal, or denotes zero or a negative
\* value, makes the run fail before any network call: no request, no
\* aggregation and no table in such a run.
C5_InvalidGroupSizeFailsFirst ==
    (~IsDecimal(args_group_size) \/ NonPositive(args_group_size)) =>
        /\ get_count = 0
        /\ NothingAggregated
        /\ NoTablePrinted
        /\ pc = "exited" => exit_code # 0

\* Whether the request of this run has failed.
FetchFailed ==
    \E i \in 1..Len(stdout) : stdout[i].kind = "error"

\* C6: when the depth request fails, the run reports the error and ends with
\* exit code 1, aggregates nothing and prints no table; the request is issued
\* at most once in a run.
C6_FetchFailureIsFatal ==
    /\ get_count <= 1
    /\ FetchFailed =>
          /\ pc = "exited"
          /\ exit_code = 1
          /\ get_count = 1
          /\ NothingAggregated
          /\ NoTablePrinted

C6_Witness ==
    /\ FetchFailed
    /\ pc = "exited"
    /\ stdout[1].title = "HTTPError"
    /\ get_count = 1

\* Whether some level entry of the side lacks its price or its quantity.
HasShortEntry(side) == \E i \in 1..Len(side) : Len(side[i]) < 2

\* C7: a level entry without its price or its quantity, on either side,
\* aborts the run with an error and a non-zero exit code, and nothing of the
\* Bids or Asks sections is printed, whichever side the entry is on.
C7_MalformedLevelAborts ==
    (HasShortEntry(data.bids) \/ HasShortEntry(data.asks)) =>
        /\ NoTablePrinted
        /\ pc \in {"aggregate_bids", "aggregate_asks", "exited"}
        /\ pc = "exited" => exit_code # 0 /\ error # "none"

\* The bids were aggregated in full, then an ask without quantity ended the
\* run.
C7_Witness ==
    /\ pc = "exited"
    /\ ~HasShortEntry(data.bids)
    /\ HasShortEntry(data.asks)
    /\ Len(bids_agg) = 2
    /\ error = "ValueError"
    /\ stdout = <<>>

\* Whether a view is in strictly ascending / descending order of column idx.
Ascending(view, idx) ==
    \A i, j \in 1..Len(view) : i < j => ~FLess(view[j][idx], view[i][idx])

Descending(view, idx) ==
    \A i, j \in 1..Len(view) : i < j => ~FLess(view[i][idx], view[j][idx])

StrictlyAscending(view, idx) ==
    \A i, j \in 1..Len(view) : i < j => FLess(view[i][idx], view[j][idx])

StrictlyDescending(view, idx) ==
    \A i, j \in 1..Len(view) : i < j => FLess(view[j][idx], view[i][idx])

\* The run has printed both sections and ended with exit code 0.
Succeeded == pc = "exited" /\ exit_code = 0

\* C8: in every successful run the bids price view is in descending and the
\* asks price view in ascending price order whatever sort-dir is, and both
\* quantity views are in the one direction sort-dir selects (descending iff
\* it is "desc"); these are the views the two sections show.
C8_ViewDirections ==
    Succeeded =>
        /\ StrictlyDescending(bids_by_price, 1)
        /\ StrictlyAscending(asks_by_price, 1)
        /\ IF args_sort_dir = "desc"
           THEN Descending(bids_by_qty, 2) /\ Descending(asks_by_qty, 2)
           ELSE Ascending(bids_by_qty, 2) /\ Ascending(asks_by_qty, 2)
        /\ Len(stdout) = 2
        /\ stdout[1].title = "Bids"
        /\ stdout[1].left = bids_by_price /\ stdout[1].right = bids_by_qty
        /\ stdout[2].title = "Asks"
        /\ stdout[2].left = asks_by_price /\ stdout[2].right = asks_by_qty

\* A successful run with sort-dir "asc" whose bids fill two buckets of
\* different quantities: the price view descends while the quantity view
\* ascends.
C8_Witness ==
    /\ Succeeded
    /\ args_sort_dir = "asc"
    /\ Len(bids_by_price) = 2
    /\ FLess(bids_by_qty[1][2], bids_by_qty[2][2])
    /\ bids_by_price # bids_by_qty
    /\ Len(asks_by_price) = 1

---------------------------------------------------------------------------
(* Properties of the bucketing, the aggregation and the sorting (checked   *)
(* under SpecAgg).  Floats are compared here as the exact numbers they     *)
(* stand for: Scaled(f, mn) is f * 2^(-mn), an integer when mn <= f.e.     *)

Scaled(f, mn) == f.m * Pow(2, f.e - mn)

\* The loop over the bids has just ended; both loops have ended.
BidsAggregated == pc = "aggregate_asks"

BothAggregated == pc = "sort"

ViewsSorted == pc = "print_bids"

\* price and quantity of a level entry, and the bucket the code puts it in.
PriceOf(entry) == FloatOf(entry[1])

QtyOf(entry) == FloatOf(entry[2])

BucketOf(entry) == group_price(entry[1], group_size_float).val

Keys(agg) == { agg[i][1] : i \in 1..Len(agg) }

Items(agg) == { agg[i] : i \in 1..Len(agg) }

\* The value the mapping holds for key k.
ValueAt(agg, k) == agg[CHOOSE i \in 1..Len(agg) : agg[i][1] = k][2]

\* C1 as stated: for a price p >= 0 and a bucket size b > 0 the key k that
\* group_price computes has k <= p < k + b, and k is an integer multiple of
\* b.  (Every price of these runs is >= 0 and every bucket size > 0.)
C1_BucketBoundsExact ==
    BidsAggregated =>
        \A i \in 1..Len(data.bids) :
            LET p  == PriceOf(data.bids[i])
                k  == BucketOf(data.bids[i])
                b  == group_size_float
                mn == Min(Min(p.e, k.e), b.e)
            IN  /\ k \in Keys(bids_agg)
                /\ Scaled(k, mn) <= Scaled(p, mn)
                /\ Scaled(p, mn) < Scaled(k, mn) + Scaled(b, mn)
                /\ Scaled(k, mn) % Scaled(b, mn) = 0

\* C1, amended: the key k is the float nearest to n * b for an integer
\* n >= 0 with n * b <= p < (n + 1) * b up to one rounding error (a factor
\* 1 +- 2^-MantBits on p), so that k <= p < k + b holds up to rounding:
\* k <= p * (1 + 3 * 2^-MantBits) and p * (1 - 2 * 2^-MantBits) < k + b.
C1_BucketBoundsRounded ==
    BidsAggregated =>
        \A i \in 1..Len(data.bids) :
            LET p  == PriceOf(data.bids[i])
                k  == BucketOf(data.bids[i])
                b  == group_size_float
                mn == Min(Min(p.e, k.e), b.e)
                P  == Scaled(p, mn)
                K  == Scaled(k, mn)
                B  == Scaled(b, mn)
            IN  /\ k \in Keys(bids_agg)
                /\ \E n \in 0..(P \div B + 1) :
                      /\ IF b.e >= 0 THEN NearestTo(k, n * b.m * Pow(2, b.e), 1)
                         ELSE NearestTo(k, n * b.m, Pow(2, -b.e))
                      /\ n * B * MaxMant <= P * (MaxMant + 1)
                      /\ P * (MaxMant - 1) < (n + 1) * B * MaxMant
                /\ K * MaxMant <= P * (MaxMant + 3)
                /\ P * (MaxMant - 2) < (K + B) * MaxMant

\* A bid whose key lies above its price: the rounding shows.
C1_Witness ==
    /\ BidsAggregated
    /\ \E i \in 1..Len(data.bids) :
          FLess(PriceOf(data.bids[i]), BucketOf(data.bids[i]))

\* The levels of a side that the code puts in bucket k, in feed order.
LevelsIn(side, k) == SelectSeq(side, LAMBDA entry : BucketOf(entry) = k)

\* The floating-point sum of the quantities of levels, added one by one
\* in order to 0.0.
RECURSIVE RunningSum(_, _, _)
RunningSum(levels, i, acc) ==
    IF i > Len(levels) THEN acc
    ELSE RunningSum(levels, i + 1, FAdd(acc, QtyOf(levels[i])))

\* The least exponent among the quantities of levels (0 if there are none).
MinExp(levels) ==
    IF Len(levels) = 0 THEN 0
    ELSE LET es == { QtyOf(levels[i]).e : i \in 1..Len(levels) }
         IN  CHOOSE e \in es : \A x \in es : e <= x

\* The exact sum of the quantities of levels, times 2^(-mn).
RECURSIVE ExactSum(_, _, _)
ExactSum(levels, i, mn) ==
    IF i > Len(levels) THEN 0
    ELSE Scaled(QtyOf(levels[i]), mn) + ExactSum(levels, i + 1, mn)

\* The exact sum of the values of a mapping, times 2^(-mn).
RECURSIVE ExactTotal(_, _, _)
ExactTotal(agg, i, mn) ==
    IF i > Len(agg) THEN 0
    ELSE Scaled(agg[i][2], mn) + ExactTotal(agg, i + 1, mn)

\* Whether S is the exact sum E of n floats up to the rounding of n - 1
\* additions: E * (1 - (n-1) * u) <= S <= E * (1 + 2 * (n-1) * u), u being
\* 2^-MantBits.
WithinRounding(S, E, n) ==
    /\ S * MaxMant <= E * (MaxMant + 2 * (n - 1))
    /\ S * MaxMant >= E * (MaxMant - (n - 1))

\* The claim as stated, for one side: the keys are the buckets of the side's
\* levels, each value is the sum of the quantities of its levels, and the
\* values add up to the side's total quantity.
SideSumsExact(agg, side) ==
    LET mn == MinExp(side)
    IN  /\ Keys(agg) = { BucketOf(side[i]) : i \in 1..Len(side) }
        /\ Cardinality(Keys(agg)) = Len(agg)
        /\ \A k \in Keys(agg) :
              Scaled(ValueAt(agg, k), mn) = ExactSum(LevelsIn(side, k), 1, mn)
        /\ ExactTotal(agg, 1, mn) = ExactSum(side, 1, mn)

\* C10 as stated: after the aggregation, on each side independently, the
\* keys are exactly the buckets of that side's levels, each value is the sum
\* of the quantities of its levels, and the values add up to the side's
\* total quantity.
C10_SumsExact ==
    BothAggregated =>
        /\ SideSumsExact(bids_agg, data.bids)
        /\ SideSumsExact(asks_agg, data.asks)

\* The claim as amended, for one side: the keys are exactly the buckets of the
\* side's levels, each once; each value is the floating-point running sum,
\* in feed order, of the quantities of exactly the levels of its bucket, and
\* so equals their sum up to rounding; the values add up to the side's total
\* quantity up to rounding.
SideSumsRounded(agg, side) ==
    LET mn == MinExp(side)
    IN  /\ Keys(agg) = { BucketOf(side[i]) : i \in 1..Len(side) }
        /\ Cardinality(Keys(agg)) = Len(agg)
        /\ \A k \in Keys(agg) :
              LET levels == LevelsIn(side, k)
              IN  /\ Len(levels) >= 1
                  /\ ValueAt(agg, k) = RunningSum(levels, 1, FZero)
                  /\ WithinRounding(Scaled(ValueAt(agg, k), mn),
                                    ExactSum(levels, 1, mn), Len(levels))
        /\ WithinRounding(ExactTotal(agg, 1, mn), ExactSum(side, 1, mn),
                          Len(side) + 1)

\* C10, amended: after the aggregation, on each side independently, the keys
\* are exactly the buckets of that side's levels, each value is the
\* floating-point running sum of the quantities of its levels (their sum up
\* to rounding), and the values add up to the side's total quantity up to
\* rounding; each side's mapping is determined by that side's levels alone.
C10_SumsRounded ==
    BothAggregated =>
        /\ SideSumsRounded(bids_agg, data.bids)
        /\ SideSumsRounded(asks_agg, data.asks)

\* Both sides are aggregated; the bids fill two buckets, one of them with
\* two levels whose sum is rounded.
C10_Witness ==
    /\ BothAggregated
    /\ Len(asks_agg) = 1
    /\ Keys(asks_agg) \cap Keys(bids_agg) # {}
    /\ Len(bids_agg) = 2
    /\ Len(data.bids) = 3
    /\ ~SideSumsExact(bids_agg, data.bids)

\* The orders the levels of a side can arrive in.
Perms(n) ==
    { f \in [1..n -> 1..n] : \A i, j \in 1..n : i # j => f[i] # f[j] }

Permuted(side, f) == [i \in 1..Len(side) |-> side[f[i]]]

\* The mapping a pass over the levels in the order f builds.
AggregatedIn(side, f) == Aggregate(Permuted(side, f), group_size_float).agg

\* The mapping built by a pass over the first n levels followed by a pass
\* over the rest into the same mapping.
InTwoBatches(side, n) ==
    AggLoop(SubSeq(side, n + 1, Len(side)), 1,
            Aggregate(SubSeq(side, 1, n), group_size_float).agg,
            group_size_float).agg

\* For each key of the mapping, in its order: the exact sum of the
\* quantities of the side's levels of that bucket (times 2^(-mn)), and
\* their number.
RECURSIVE ExactSums(_, _, _, _)
ExactSums(side, agg, j, mn) ==
    IF j > Len(agg) THEN <<>>
    ELSE LET levels == LevelsIn(side, agg[j][1])
         IN  << <<ExactSum(levels, 1, mn), Len(levels)>> >>
                 \o ExactSums(side, agg, j + 1, mn)

\* C2 as stated: the levels in any order, or in two consecutive batches,
\* give the same bucket-to-sum mapping as the one pass.
C2_OrderIndependentExact ==
    BidsAggregated =>
        /\ \A f \in Perms(Len(data.bids)) :
              Items(AggregatedIn(data.bids, f)) = Items(bids_agg)
        /\ \A n \in 0..Len(data.bids) :
              Items(InTwoBatches(data.bids, n)) = Items(bids_agg)

\* C2, amended: two consecutive batches give exactly the mapping of the one
\* pass; the levels in any other order give the same buckets, and for each
\* bucket a sum that equals the exact sum of the bucket's quantities up to
\* the rounding of its additions (so the sums agree up to rounding).
C2_OrderIndependentRounded ==
    BidsAggregated =>
        /\ \A n \in 0..Len(data.bids) :
              InTwoBatches(data.bids, n) = bids_agg
        /\ LET mn    == MinExp(data.bids)
               exact == ExactSums(data.bids, bids_agg, 1, mn)
           IN  \A f \in Perms(Len(data.bids)) :
                   LET r == AggregatedIn(data.bids, f)
                   IN  /\ Keys(r) = Keys(bids_agg)
                       /\ Len(r) = Len(bids_agg)
                       /\ \A j \in 1..Len(bids_agg) :
                             WithinRounding(
                                 Scaled(ValueAt(r, bids_agg[j][1]), mn),
                                 exact[j][1], exact[j][2])

\* Three bids of one bucket whose sum depends on the order they arrive in.
C2_Witness ==
    /\ BidsAggregated
    /\ Len(data.bids) = 3
    /\ Len(bids_agg) = 1
    /\ \E f \in Perms(3) : AggregatedIn(data.bids, f) # bids_agg

\* Whether view holds every item of the mapping exactly once.
IsPermutation(view, agg) ==
    /\ Len(view) = Len(agg)
    /\ \A i \in 1..Len(agg) :
          Cardinality({ j \in 1..Len(view) : view[j] = agg[i] }) = 1

\* Position of an item in a view.
PosIn(view, item) == CHOOSE j \in 1..Len(view) : view[j] = item

\* Whether the two views order every two items with different keys
\* oppositely.
Reversed(up, down, agg, idx) ==
    \A x, y \in Items(agg) :
        x[idx] # y[idx] =>
            (PosIn(up, x) < PosIn(up, y) <=> PosIn(down, y) < PosIn(down, x))

\* C3: the price view and the quantity view of a mapping each hold every
\* bucket exactly once, in the order of the chosen key and direction, and
\* the other direction reverses the order of the entries whose keys differ.
C3_ViewsArePermutations ==
    /\ BothAggregated =>
          \A idx \in {1, 2} :
              LET up   == sorted(bids_agg, idx, FALSE)
                  down == sorted(bids_agg, idx, TRUE)
              IN  /\ IsPermutation(up, bids_agg)
                  /\ IsPermutation(down, bids_agg)
                  /\ Ascending(up, idx)
                  /\ Descending(down, idx)
                  /\ Reversed(up, down, bids_agg, idx)
    /\ ViewsSorted =>
          /\ IsPermutation(bids_by_price, bids_agg)
          /\ IsPermutation(bids_by_qty, bids_agg)
          /\ IsPermutation(asks_by_price, asks_agg)
          /\ IsPermutation(asks_by_qty, asks_agg)
          /\ Descending(bids_by_price, 1)
          /\ Ascending(asks_by_price, 1)
          /\ IF args_sort_dir = "desc" THEN Descending(bids_by_qty, 2)
             ELSE Ascending(bids_by_qty, 2)

\* Three buckets are sorted, two of them with equal quantities and one
\* with another.
C3_Witness ==
    /\ ViewsSorted
    /\ Len(bids_by_qty) = 3
    /\ \E i, j \in 1..3 : i # j /\ bids_by_qty[i][2] = bids_by_qty[j][2]
    /\ \E i, j \in 1..3 : bids_by_qty[i][2] # bids_by_qty[j][2]
    /\ bids_by_qty # bids_by_price

\* C9: two mappings with the same bucket-to-quantity entries have identical
\* price views and identical quantity views, buckets of equal quantity
\* included, whatever order the levels were aggregated in.
C9_ViewsIgnoreInsertionOrder ==
    ViewsSorted =>
        \A f \in Perms(Len(data.bids)) :
            LET r == AggregatedIn(data.bids, f)
            IN  Items(r) = Items(bids_agg) =>
                    /\ sorted(r, 1, BidsPriceReverse) = bids_by_price
                    /\ sorted(r, 2, QtyReverse) = bids_by_qty

=============================================================================
